---- MODULE Spec2Model ----
(***************************************************************************)
(* simple-pages: the site deployment and serving pipeline of src/site.rs.  *)
(*                                                                         *)
(* A file name is a sequence of one-character strings, a path a sequence   *)
(* of names, and a raw (textual) path a sequence of characters in which    *)
(* "/" separates the names.  The filesystem is a function from absolute    *)
(* paths to nodes (directory, regular file, symbolic link).                *)
(***************************************************************************)
EXTENDS Naturals, Sequences, FiniteSets, TLC

VARIABLES
    fs,          \* the filesystem: absolute path -> node
    crossDevice, \* TRUE when the temp directory and the data directory are on different devices
    pc,          \* position of each upload_site call
    call,        \* the locals of each upload_site call
    trace,       \* the filesystem calls each upload_site call has made on shared directories
    saved,       \* per user: the site content that was live when a promote step last failed
    resp,        \* the last response of serve_file
    raw,         \* sanitizer harness: the raw archive path under test
    kindIn,      \* sanitizer harness: the entry kind and archive format under test
    san,         \* sanitizer harness: the result of sanitize_archive_path
    xfs,         \* sanitizer harness: the filesystem after extracting the one-entry archive
    api,         \* the last response of delete_site or get_site_info
    ftree,       \* flatten harness: the staging directory's filesystem before flatten_single_root
    fres,        \* flatten harness: the result of flatten_single_root
    req,         \* the serve_file call in flight: its position and what it has resolved so far
    post,        \* request harness: one POST /api/site/upload, its sizes and its outcome
    db           \* the database: users, invite codes, the connection's mutex and the calls on it

vars == <<fs, crossDevice, pc, call, trace, saved, resp, raw, kindIn, san, xfs, api, ftree, fres, req, post, db>>

None == "none"

\* Body applied to the value of e: e is evaluated once, however often Body uses it.
With(e, Body(_)) == CHOOSE r \in {Body(x) : x \in {e}} : TRUE

-----------------------------------------------------------------------------
(* Bounds of the model *)

\* Longest raw archive path the sanitizer harness enumerates.
MaxRawLen == 5

\* The configured disk quota (Config::disk_quota_bytes), scaled down to bytes.
DiskQuotaBytes == 3

\* The configured upload limit (Config::max_upload_bytes), scaled down to bytes.
MaxUploadBytes == 4

\* The allowance of the request body limit over max_upload_bytes (1024 in main).
BodySlack == 2

\* The largest number of body bytes that are not the uploaded file's.
MaxFraming == 3

\* Symbolic links the environment keeps inside the sites directory at one time.
MaxLinks == 1

-----------------------------------------------------------------------------
(* Names and paths *)

N_data == <<"d", "a", "t", "a">>
N_sites == <<"s", "i", "t", "e", "s">>
N_db == <<"p", "a", "g", "e", "s", ".", "d", "b">>
N_tmp == <<"t", "m", "p">>
N_index == <<"i", "n", "d", "e", "x", ".", "h", "t", "m", "l">>
N_flatten == <<"_", "_", "f", "l", "a", "t", "t", "e", "n", "_", "t", "e", "m", "p", "_", "_">>
Ext_old == <<"o", "l", "d">>
N_dot == <<".">>
N_dotdot == <<".", ".">>

\* Config::sites_dir: data_dir.join("sites")
SitesDir == <<N_data, N_sites>>

\* Config::db_path: data_dir.join("pages.db")
DbPath == <<N_data, N_db>>

\* Path::starts_with: a whole-component prefix.
StartsWith(p, base) == Len(base) <= Len(p) /\ SubSeq(p, 1, Len(base)) = base

Parent(p) == SubSeq(p, 1, Len(p) - 1)

FileName(p) == p[Len(p)]

\* The position of the last "." of a name, 0 when there is none.
RECURSIVE LastDot(_, _)
LastDot(name, i) ==
    IF i = 0 THEN 0
    ELSE IF name[i] = "." THEN i
    ELSE LastDot(name, i - 1)

\* Path::extension of a file name: the part after the last ".", "" (empty) when
\* there is no "." or the only one is the first character.
Extension(name) ==
    LET d == LastDot(name, Len(name))
    IN  IF d <= 1 THEN <<>> ELSE SubSeq(name, d + 1, Len(name))

\* Path::with_extension on a name: the stem up to the last "." plus "." ext.
WithExtension(name, ext) ==
    LET d == LastDot(name, Len(name))
        stem == IF d <= 1 THEN name ELSE SubSeq(name, 1, d - 1)
    IN  stem \o <<".">> \o ext

\* The names of a raw path: the pieces between "/" characters, empty ones included.
RECURSIVE Split(_, _, _)
Split(s, i, cur) ==
    IF i > Len(s) THEN <<cur>>
    ELSE IF s[i] = "/" THEN <<cur>> \o Split(s, i + 1, <<>>)
    ELSE Split(s, i + 1, Append(cur, s[i]))

RECURSIVE DropEmpty(_)
DropEmpty(segs) ==
    IF segs = <<>> THEN <<>>
    ELSE IF Head(segs) = <<>> THEN DropEmpty(Tail(segs))
    ELSE <<Head(segs)>> \o DropEmpty(Tail(segs))

\* Path::has_root on Unix.
HasRoot(s) == Len(s) > 0 /\ s[1] = "/"

\* Path::components on Unix, the root component left out: repeated separators and
\* a trailing separator vanish; "." is CurDir, ".." ParentDir, the rest Normal.
Components(s) == DropEmpty(Split(s, 1, <<>>))

ComponentKind(c) ==
    IF c = N_dot THEN "CurDir"
    ELSE IF c = N_dotdot THEN "ParentDir"
    ELSE "Normal"

-----------------------------------------------------------------------------
(* sanitize_archive_path *)

SanOk(path) == [ok |-> TRUE, path |-> path, err |-> None]
SanErr(e) == [ok |-> FALSE, path |-> <<>>, err |-> e]

\* A sanitizer that tests the leading "." before it looks at the kind of the
\* component, so that ".." counts as a hidden entry.
RECURSIVE SanitizeLoop_HiddenFirst(_, _)
SanitizeLoop_HiddenFirst(comps, result) ==
    IF comps = <<>> THEN SanOk(IF result = <<>> THEN <<N_dot>> ELSE result)
    ELSE LET c == Head(comps)
         IN  IF c[1] = "." /\ c # N_dot THEN SanErr("HiddenEntry")
             ELSE IF c = N_dot THEN SanitizeLoop_HiddenFirst(Tail(comps), result)
             ELSE SanitizeLoop_HiddenFirst(Tail(comps), Append(result, c))

\* A sanitizer that skips parent-directory components instead of rejecting them
\* and keeps them in the result.
RECURSIVE SanitizeLoop_KeepParent(_, _)
SanitizeLoop_KeepParent(comps, result) ==
    IF comps = <<>> THEN SanOk(IF result = <<>> THEN <<N_dot>> ELSE result)
    ELSE LET c == Head(comps)
         IN  IF ComponentKind(c) = "ParentDir"
             THEN SanitizeLoop_KeepParent(Tail(comps), Append(result, c))
             ELSE IF ComponentKind(c) = "CurDir"
             THEN SanitizeLoop_KeepParent(Tail(comps), result)
             ELSE IF c[1] = "." THEN SanErr("HiddenEntry")
             ELSE SanitizeLoop_KeepParent(Tail(comps), Append(result, c))

\* A component loop that pushes current-directory components as well.
RECURSIVE SanitizeLoop_KeepCurDir(_, _)
SanitizeLoop_KeepCurDir(comps, result) ==
    IF comps = <<>> THEN SanOk(IF result = <<>> THEN <<N_dot>> ELSE result)
    ELSE LET c == Head(comps)
         IN  IF ComponentKind(c) = "ParentDir" THEN SanErr("PathTraversal")
             ELSE IF c[1] = "." /\ c # N_dot THEN SanErr("HiddenEntry")
             ELSE SanitizeLoop_KeepCurDir(Tail(comps), Append(result, c))

\* The component loop of sanitize_archive_path.
RECURSIVE SanitizeLoop(_, _)
SanitizeLoop(comps, result) ==
    IF comps = <<>> THEN SanOk(IF result = <<>> THEN <<N_dot>> ELSE result)
    ELSE LET c == Head(comps)
         IN  CASE ComponentKind(c) = "Normal" ->
                    IF c[1] = "." /\ c # N_dot THEN SanErr("HiddenEntry")
                    ELSE SanitizeLoop(Tail(comps), Append(result, c))
               [] ComponentKind(c) = "ParentDir" -> SanErr("PathTraversal")
               [] OTHER -> SanitizeLoop(Tail(comps), result)

\* sanitize_archive_path with the component loop that keeps ".." components.
sanitize_archive_path_KeepParent(s) ==
    IF HasRoot(s) THEN SanErr("AbsolutePath")
    ELSE SanitizeLoop_KeepParent(Components(s), <<>>)

\* sanitize_archive_path with the component loop that tests the leading "." first.
sanitize_archive_path_HiddenFirst(s) ==
    IF HasRoot(s) THEN SanErr("AbsolutePath")
    ELSE SanitizeLoop_HiddenFirst(Components(s), <<>>)

sanitize_archive_path(s) ==
    IF HasRoot(s) THEN SanErr("AbsolutePath")
    ELSE SanitizeLoop(Components(s), <<>>)

-----------------------------------------------------------------------------
(* The filesystem *)

DirNode == [kind |-> "dir", data |-> <<>>, target |-> <<>>]
FileNode(d) == [kind |-> "file", data |-> d, target |-> <<>>]
LinkNode(t) == [kind |-> "link", data |-> <<>>, target |-> t]

\* The root directory <<>> always exists and is not stored.
Has(f, p) == p = <<>> \/ p \in DOMAIN f

KindOf(f, p) == IF p = <<>> THEN "dir" ELSE f[p].kind

\* The paths at or below d.
Under(f, d) == {p \in DOMAIN f : StartsWith(p, d)}

Children(f, d) == {p \in DOMAIN f : Len(p) = Len(d) + 1 /\ StartsWith(p, d)}

EmptyTree == <<>>

Absent == [present |-> FALSE, tree |-> EmptyTree]
Present(t) == [present |-> TRUE, tree |-> t]

\* The tree rooted at d, as relative path -> node; Absent when d does not exist.
TreeAt(f, d) ==
    IF ~Has(f, d) THEN Absent
    ELSE Present([r \in {SubSeq(p, Len(d) + 1, Len(p)) : p \in Under(f, d) \ {d}} |-> f[d \o r]])

\* Lexical resolution of "." and ".." in a path that holds no symbolic link.
RECURSIVE Normalize(_, _)
Normalize(comps, cur) ==
    IF comps = <<>> THEN cur
    ELSE IF Head(comps) = N_dot THEN Normalize(Tail(comps), cur)
    ELSE IF Head(comps) = N_dotdot
    THEN Normalize(Tail(comps), IF cur = <<>> THEN cur ELSE Parent(cur))
    ELSE Normalize(Tail(comps), Append(cur, Head(comps)))

\* PathBuf::join of a base directory and a relative path, as the kernel resolves it.
Join(base, rel) == Normalize(rel, base)

FsOk(f) == [ok |-> TRUE, fs |-> f]
FsErr(f) == [ok |-> FALSE, fs |-> f]

\* std::fs::create_dir_all: creates every missing ancestor; fails when a
\* component exists and is not a directory.
RECURSIVE CreateDirAllFrom(_, _, _)
CreateDirAllFrom(f, p, i) ==
    IF i > Len(p) THEN FsOk(f)
    ELSE LET q == SubSeq(p, 1, i)
         IN  IF q \in DOMAIN f
             THEN IF f[q].kind = "file" THEN FsErr(f) ELSE CreateDirAllFrom(f, p, i + 1)
             ELSE CreateDirAllFrom([x \in DOMAIN f \cup {q} |-> IF x = q THEN DirNode ELSE f[x]],
                                   p, i + 1)

create_dir_all(f, p) == CreateDirAllFrom(f, p, 1)

\* std::fs::File::create followed by io::copy of the content: the parent must be
\* a directory and the path must not be one; an existing file is truncated.
WriteFile(f, p, d) ==
    IF p = <<>> \/ ~Has(f, Parent(p)) \/ KindOf(f, Parent(p)) # "dir" THEN FsErr(f)
    ELSE IF p \in DOMAIN f /\ f[p].kind = "dir" THEN FsErr(f)
    ELSE FsOk([x \in DOMAIN f \cup {p} |-> IF x = p THEN FileNode(d) ELSE f[x]])

\* std::fs::remove_dir_all: the callers ignore its error (a missing path).
remove_dir_all(f, d) == [x \in DOMAIN f \ Under(f, d) |-> f[x]]

\* rename(2) within one device: the source must exist; the target's parent must
\* be a directory; an existing target is replaced only when it is an empty
\* directory (source a directory) or not a directory (source not a directory);
\* a directory cannot be moved below itself.
RenameOk(f, a, b) ==
    /\ a \in DOMAIN f
    /\ b # <<>>
    /\ Has(f, Parent(b)) /\ KindOf(f, Parent(b)) = "dir"
    /\ ~(StartsWith(b, a) /\ a # b)
    /\ b \in DOMAIN f /\ a # b =>
          IF f[a].kind = "dir"
          THEN f[b].kind = "dir" /\ Children(f, b) = {}
          ELSE f[b].kind # "dir"

Rename(f, a, b) ==
    IF a = b THEN f
    ELSE LET keep == DOMAIN f \ (Under(f, a) \cup Under(f, b))
             moved == {b \o SubSeq(p, Len(a) + 1, Len(p)) : p \in Under(f, a)}
         IN  [x \in keep \cup moved |->
                 IF x \in moved THEN f[a \o SubSeq(x, Len(b) + 1, Len(x))] ELSE f[x]]

\* std::fs::remove_dir: only an empty directory.
RemoveDirOk(f, d) == d \in DOMAIN f /\ f[d].kind = "dir" /\ Children(f, d) = {}

-----------------------------------------------------------------------------
(* Archive extraction into the staging directory *)

EndsWith(s, suffix) ==
    Len(suffix) <= Len(s) /\ SubSeq(s, Len(s) - Len(suffix) + 1, Len(s)) = suffix

\* An archive entry: its raw path, its kind ("file", "dir" or "symlink") and its content.
Entry(r, k, d) == [raw |-> r, kind |-> k, data |-> d]

ExOk(f) == [ok |-> TRUE, fs |-> f, err |-> None]
ExErr(f, e) == [ok |-> FALSE, fs |-> f, err |-> e]

\* Creates the parent directories of out and writes the content there.
WriteEntry(f, out, d) ==
    With(IF out = <<>> THEN FsOk(f) ELSE create_dir_all(f, Parent(out)),
         LAMBDA mk : IF ~mk.ok THEN FsErr(f) ELSE WriteFile(mk.fs, out, d))

\* The outcome of one archive entry from the outcome of its filesystem call.
EntryResult(f, r) == IF r.ok THEN ExOk(r.fs) ELSE ExErr(f, "Io")

\* ZipFile::is_dir: the entry name ends with a separator.
ZipIsDir(e) == Len(e.raw) > 0 /\ e.raw[Len(e.raw)] = "/"

\* One iteration of the loop of extract_zip: whatever is not a directory by its
\* name is written as a file with the entry's content.
ZipEntry(f, dest, e) ==
    With(sanitize_archive_path(e.raw), LAMBDA sp :
        IF ~sp.ok THEN ExErr(f, sp.err)
        ELSE IF ZipIsDir(e)
        THEN EntryResult(f, create_dir_all(f, Join(dest, sp.path)))
        ELSE EntryResult(f, WriteEntry(f, Join(dest, sp.path), e.data)))

\* One iteration of the loop of extract_tar_gz: directories and regular files
\* by the header's entry type, every other type skipped.
TarEntry(f, dest, e) ==
    With(sanitize_archive_path(e.raw), LAMBDA sp :
        IF ~sp.ok THEN ExErr(f, sp.err)
        ELSE IF e.kind = "dir"
        THEN EntryResult(f, create_dir_all(f, Join(dest, sp.path)))
        ELSE IF e.kind = "file"
        THEN EntryResult(f, WriteEntry(f, Join(dest, sp.path), e.data))
        ELSE ExOk(f))

\* The entries in archive order; the first failure ends the extraction.
RECURSIVE ExtractEntries(_, _, _, _)
ExtractEntries(f, dest, entries, fmt) ==
    IF entries = <<>> THEN ExOk(f)
    ELSE With(IF fmt = "zip" THEN ZipEntry(f, dest, Head(entries))
              ELSE TarEntry(f, dest, Head(entries)),
              LAMBDA r : IF ~r.ok THEN r ELSE ExtractEntries(r.fs, dest, Tail(entries), fmt))

\* The loop of flatten_single_root that moves the children of the renamed
\* wrapper up.  read_dir yields them in no specified order; a rename that fails
\* fails in every order (its target is the wrapper itself), so the outcome does
\* not depend on the order chosen here.
RECURSIVE MoveUp(_, _, _, _)
MoveUp(f, dir, temp, todo) ==
    IF todo = {} THEN FsOk(f)
    ELSE With(CHOOSE x \in todo : TRUE, LAMBDA c :
             IF ~RenameOk(f, c, Append(dir, FileName(c))) THEN FsErr(f)
             ELSE MoveUp(Rename(f, c, Append(dir, FileName(c))), dir, temp, todo \ {c}))

\* The body of flatten_single_root once the only entry is known to be a directory.
FlattenInto(f, dir, single_dir, temp_name) ==
    IF ~RenameOk(f, single_dir, temp_name) THEN FsErr(f)
    ELSE With(Rename(f, single_dir, temp_name), LAMBDA f1 :
         With(MoveUp(f1, dir, temp_name, Children(f1, temp_name)), LAMBDA mv :
             IF ~mv.ok THEN FsErr(mv.fs)
             ELSE IF ~RemoveDirOk(mv.fs, temp_name) THEN FsErr(mv.fs)
             ELSE FsOk([x \in DOMAIN mv.fs \ {temp_name} |-> mv.fs[x]])))

\* flatten_single_root that never finds a wrapper to remove.
flatten_single_root_Never(f, dir) == FsOk(f)

flatten_single_root(f, dir) ==
    With(Children(f, dir), LAMBDA entries :
        IF Cardinality(entries) = 1 /\ (\A e \in entries : f[e].kind = "dir")
        THEN FlattenInto(f, dir, CHOOSE e \in entries : TRUE, Append(dir, N_flatten))
        ELSE FsOk(f))

\* extract_zip and extract_tar_gz: the entries, then flatten_single_root.
Extract(f, dest, entries, fmt) ==
    With(ExtractEntries(f, dest, entries, fmt), LAMBDA r :
        IF ~r.ok THEN r
        ELSE With(flatten_single_root(r.fs, dest), LAMBDA fl :
                 IF fl.ok THEN ExOk(fl.fs) ELSE ExErr(fl.fs, "Io")))

RECURSIVE SumSizes(_, _)
SumSizes(f, ps) ==
    IF ps = {} THEN 0
    ELSE With(CHOOSE x \in ps : TRUE, LAMBDA p : Len(f[p].data) + SumSizes(f, ps \ {p}))

\* The total of list_files_recursive over a tree without symbolic links: the sum
\* of the sizes of the regular files at every depth, 0 for a missing root.
TotalSize(f, dir) ==
    IF ~Has(f, dir) THEN 0
    ELSE SumSizes(f, {p \in Under(f, dir) : f[p].kind = "file"})

-----------------------------------------------------------------------------
(* Serving: serve_file, serve_static_file, mime_from_extension *)

\* Bound on nested symbolic links followed by one resolution (the kernel's ELOOP limit).
MaxLinkDepth == 2

Upper == <<"A", "B", "C", "D", "E", "F", "G", "H", "I", "J", "K", "L", "M",
           "N", "O", "P", "Q", "R", "S", "T", "U", "V", "W", "X", "Y", "Z">>
Lower == <<"a", "b", "c", "d", "e", "f", "g", "h", "i", "j", "k", "l", "m",
           "n", "o", "p", "q", "r", "s", "t", "u", "v", "w", "x", "y", "z">>
Digits == {"0", "1", "2", "3", "4", "5", "6", "7", "8", "9"}

\* char::is_ascii_alphanumeric
IsAsciiAlphanumeric(c) ==
    \/ \E i \in 1..26 : Upper[i] = c \/ Lower[i] = c
    \/ c \in Digits

ToLowerChar(c) ==
    IF \E i \in 1..26 : Upper[i] = c THEN Lower[CHOOSE i \in 1..26 : Upper[i] = c] ELSE c

\* str::to_lowercase on ASCII text
ToLowercase(s) == [i \in 1..Len(s) |-> ToLowerChar(s[i])]

\* A username check that lets "." through as well.
ValidUsername_AllowDot(u) ==
    \A i \in 1..Len(u) : IsAsciiAlphanumeric(u[i]) \/ u[i] = "-" \/ u[i] = "_" \/ u[i] = "."

\* The username check of serve_file (the same set of characters as api_register).
ValidUsername(u) == \A i \in 1..Len(u) : IsAsciiAlphanumeric(u[i]) \/ u[i] = "-" \/ u[i] = "_"

mime_from_extension(ext) ==
    LET e == ToLowercase(ext)
    IN  CASE e = <<"h", "t", "m", "l">> \/ e = <<"h", "t", "m">> -> "text/html; charset=utf-8"
          [] e = <<"c", "s", "s">> -> "text/css; charset=utf-8"
          [] e = <<"j", "s">> \/ e = <<"m", "j", "s">> -> "application/javascript; charset=utf-8"
          [] e = <<"j", "s", "o", "n">> -> "application/json"
          [] e = <<"p", "n", "g">> -> "image/png"
          [] e = <<"j", "p", "g">> \/ e = <<"j", "p", "e", "g">> -> "image/jpeg"
          [] e = <<"g", "i", "f">> -> "image/gif"
          [] e = <<"s", "v", "g">> -> "image/svg+xml"
          [] e = <<"i", "c", "o">> -> "image/x-icon"
          [] e = <<"w", "o", "f", "f">> -> "font/woff"
          [] e = <<"w", "o", "f", "f", "2">> -> "font/woff2"
          [] e = <<"t", "t", "f">> -> "font/ttf"
          [] e = <<"o", "t", "f">> -> "font/otf"
          [] e = <<"w", "e", "b", "p">> -> "image/webp"
          [] e = <<"a", "v", "i", "f">> -> "image/avif"
          [] e = <<"m", "p", "4">> -> "video/mp4"
          [] e = <<"w", "e", "b", "m">> -> "video/webm"
          [] e = <<"p", "d", "f">> -> "application/pdf"
          [] e = <<"x", "m", "l">> -> "application/xml"
          [] e = <<"t", "x", "t">> -> "text/plain; charset=utf-8"
          [] e = <<"m", "d">> -> "text/plain; charset=utf-8"
          [] e = <<"w", "a", "s", "m">> -> "application/wasm"
          [] OTHER -> "application/octet-stream"

CanonOk(p) == [ok |-> TRUE, path |-> p]
CanonErr == [ok |-> FALSE, path |-> <<>>]

\* Path::canonicalize (realpath): every component must exist; "." and ".." are
\* resolved, symbolic links followed (their targets are absolute paths), and a
\* component below a regular file is an error.  cur is already canonical.
RECURSIVE Canon(_, _, _, _)
Canon(f, comps, cur, fuel) ==
    IF comps = <<>> THEN CanonOk(cur)
    ELSE IF KindOf(f, cur) # "dir" THEN CanonErr
    ELSE LET c == Head(comps)
             q == Append(cur, c)
         IN  IF c = N_dot THEN Canon(f, Tail(comps), cur, fuel)
             ELSE IF c = N_dotdot
             THEN Canon(f, Tail(comps), IF cur = <<>> THEN cur ELSE Parent(cur), fuel)
             ELSE IF q \notin DOMAIN f THEN CanonErr
             ELSE IF f[q].kind = "link"
             THEN IF fuel = 0 THEN CanonErr
                  ELSE With(Canon(f, f[q].target, <<>>, fuel - 1), LAMBDA t :
                           IF ~t.ok THEN CanonErr ELSE Canon(f, Tail(comps), t.path, fuel))
             ELSE Canon(f, Tail(comps), q, fuel)

\* canonicalize of an absolute path given by its components.
Canonicalize(f, p) == Canon(f, p, <<>>, MaxLinkDepth)

\* Path::exists and Path::is_dir follow symbolic links.
Exists(f, p) == Canonicalize(f, p).ok

\* A raw path that names a directory by its form: empty, or ending with "/".
MustBeDir(s) == s = <<>> \/ s[Len(s)] = "/"

\* sites_dir.join(username).join(path): an absolute path replaces the base.
FilePath(username, path) ==
    IF HasRoot(path) THEN Components(path)
    ELSE SitesDir \o <<username>> \o Components(path)

Response(st, body, mime, src) == [status |-> st, body |-> body, mime |-> mime, source |-> src]
NotFound == Response("NotFound", <<>>, "", <<>>)
NoResp == [route |-> "none", user |-> <<>>, path |-> <<>>, r |-> Response("None", <<>>, "", <<>>)]
Forbidden == Response("Forbidden", <<>>, "", <<>>)

\* The response of delete_site or get_site_info: the files listed and their total.
ApiResponse(op, user, st, files, total) ==
    [op |-> op, user |-> user, status |-> st, files |-> files, total |-> total]
NoApi == ApiResponse("none", <<>>, "None", <<>>, 0)

\* serve_static_file with a failed read reported as an internal error.
serve_static_file_ReadError(f, p) ==
    With(Canonicalize(f, p), LAMBDA c :
        IF ~c.ok \/ KindOf(f, c.path) # "file" THEN Response("Internal", <<>>, "", <<>>)
        ELSE Response("Ok", f[c.path].data, mime_from_extension(Extension(FileName(p))), c.path))

\* serve_static_file: tokio::fs::read follows symbolic links; the content type
\* comes from the extension of the path it was given.  source records the
\* canonical location of the file whose bytes are returned.
serve_static_file(f, p) ==
    With(Canonicalize(f, p), LAMBDA c :
        IF ~c.ok \/ KindOf(f, c.path) # "file" THEN NotFound
        ELSE Response("Ok", f[c.path].data, mime_from_extension(Extension(FileName(p))), c.path))

\* serve_file without the index.html fallback: a directory is not found.
ServeCanonical_NoIndex(f, username, canonical_sites, canonical_file) ==
    IF ~StartsWith(canonical_file, Append(canonical_sites, username)) THEN Forbidden
    ELSE IF KindOf(f, canonical_file) = "dir" THEN NotFound
    ELSE serve_static_file(f, canonical_file)

\* serve_file after the two canonicalize calls: the containment test, the
\* index.html fallback for a directory, the file itself otherwise.
ServeCanonical(f, username, canonical_sites, canonical_file) ==
    IF ~StartsWith(canonical_file, Append(canonical_sites, username)) THEN Forbidden
    ELSE IF KindOf(f, canonical_file) = "dir"
    THEN IF Exists(f, Append(canonical_file, N_index))
         THEN serve_static_file(f, Append(canonical_file, N_index))
         ELSE NotFound
    ELSE serve_static_file(f, canonical_file)

serve_file(f, username, path) ==
    IF ~ValidUsername(username) THEN NotFound
    ELSE With(Canonicalize(f, SitesDir), LAMBDA cs :
         With(Canonicalize(f, FilePath(username, path)), LAMBDA cf :
             IF ~cf.ok \/ (MustBeDir(path) /\ KindOf(f, cf.path) # "dir") THEN NotFound
             ELSE ServeCanonical(f, username, IF cs.ok THEN cs.path ELSE SitesDir, cf.path)))

-----------------------------------------------------------------------------
(* list_files_recursive as get_site_info calls it on the live site *)

\* The characters of names in byte order, for the comparison of path strings.
CharOrder == <<"-", ".", "/", "0", "1", "2", "3", "4", "5", "6", "7", "8", "9",
               "A", "B", "C", "D", "E", "F", "G", "H", "I", "J", "K", "L", "M",
               "N", "O", "P", "Q", "R", "S", "T", "U", "V", "W", "X", "Y", "Z", "_",
               "a", "b", "c", "d", "e", "f", "g", "h", "i", "j", "k", "l", "m",
               "n", "o", "p", "q", "r", "s", "t", "u", "v", "w", "x", "y", "z">>

CharRank(c) == CHOOSE i \in 1..Len(CharOrder) : CharOrder[i] = c

\* The text of a relative path: its names joined by "/".
RECURSIVE PathString(_)
PathString(rel) ==
    IF rel = <<>> THEN <<>>
    ELSE IF Len(rel) = 1 THEN rel[1]
    ELSE rel[1] \o <<"/">> \o PathString(Tail(rel))

\* str::cmp: a < b in byte-wise lexicographic order.
RECURSIVE StrLess(_, _)
StrLess(a, b) ==
    IF b = <<>> THEN FALSE
    ELSE IF a = <<>> THEN TRUE
    ELSE IF a[1] # b[1] THEN CharRank(a[1]) < CharRank(b[1])
    ELSE StrLess(Tail(a), Tail(b))

FileEntry(path, size) == [path |-> path, size |-> size]

\* The length DirEntry::metadata reports for a symbolic link: that of its target's text.
LinkSize(target) == Len(PathString(target)) + 1

\* walk(base, current): read_dir of the directory whose canonical location is
\* cur and whose path below base is rel.  path.is_dir() follows symbolic links
\* (links counts those on the way, the kernel giving up past MaxLinkDepth);
\* everything that is not a directory that way is pushed with the size of
\* entry.metadata(), which does not follow links.
RECURSIVE Walk(_, _, _, _)
RECURSIVE WalkEntry(_, _, _, _)
Walk(f, rel, cur, links) ==
    UNION {WalkEntry(f, Append(rel, FileName(c)), c, links) : c \in Children(f, cur)}

WalkEntry(f, rel, c, links) ==
    IF f[c].kind = "dir" THEN Walk(f, rel, c, links)
    ELSE IF f[c].kind = "file" THEN {FileEntry(PathString(rel), Len(f[c].data))}
    ELSE With(Canonicalize(f, c), LAMBDA t :
             IF links < MaxLinkDepth /\ t.ok /\ KindOf(f, t.path) = "dir"
             THEN Walk(f, rel, t.path, links + 1)
             ELSE {FileEntry(PathString(rel), LinkSize(f[c].target))})

\* files.sort_by(|a, b| a.path.cmp(&b.path))
RECURSIVE SortByPath(_)
SortByPath(es) ==
    IF es = {} THEN <<>>
    ELSE With(CHOOSE m \in es : \A e \in es : ~StrLess(e.path, m.path), LAMBDA m :
             <<m>> \o SortByPath(es \ {m}))

RECURSIVE SumEntries(_)
SumEntries(es) ==
    IF es = {} THEN 0
    ELSE With(CHOOSE e \in es : TRUE, LAMBDA e : e.size + SumEntries(es \ {e}))

\* list_files_recursive(dir): the sorted entries and the total of their sizes;
\* the empty list and 0 for a root that does not exist.
list_files_recursive(f, dir) ==
    With(Canonicalize(f, dir), LAMBDA root :
        IF ~root.ok \/ KindOf(f, root.path) # "dir" THEN [files |-> <<>>, total |-> 0]
        ELSE With(Walk(f, <<>>, root.path, 0), LAMBDA es :
                 [files |-> SortByPath(es), total |-> SumEntries(es)]))

-----------------------------------------------------------------------------
(* The deployment pipeline: upload_site *)

\* The registered users: api_register created an empty site directory for each.
Users == {<<"u">>}

\* The concurrent upload_site calls.
Procs == {1, 2}

SiteDir(u) == Append(SitesDir, u)

\* site_dir.with_extension("old")
OldDir(u) == Append(SitesDir, WithExtension(u, Ext_old))

\* A staging directory that is the live site directory itself: the archive is
\* extracted in place.
TempDir_Live(p) == SiteDir(CHOOSE u \in Users : TRUE)

\* The directory tempfile::tempdir() gives call p: a fresh name below /tmp.
TempDir(p) == <<N_tmp, <<"t", IF p = 1 THEN "1" ELSE "2">>>>

Upload(name, len, corrupt, entries) ==
    [filename |-> name, len |-> len, corrupt |-> corrupt, entries |-> entries]

F_zip == <<"s", ".", "z", "i", "p">>
F_tgz == <<"s", ".", "t", "g", "z">>
F_targz == <<"s", ".", "t", "a", "r", ".", "g", "z">>
F_rar == <<"s", ".", "r", "a", "r">>

\* The uploads the model draws from.
Uploads == <<
    \* 1: one regular file a/b.txt with content "hi"
    Upload(F_zip, 2, FALSE,
           <<Entry(<<"a", "/", "b", ".", "t", "x", "t">>, "file", <<"h", "i">>)>>),
    \* 2: a wrapper directory w/ holding index.html and d/c; three bytes in all
    Upload(F_targz, 3, FALSE,
           <<Entry(<<"w", "/">>, "dir", <<>>),
             Entry(<<"w", "/", "i", "n", "d", "e", "x", ".", "h", "t", "m", "l">>, "file", <<"x">>),
             Entry(<<"w", "/", "d", "/", "c">>, "file", <<"y", "z">>)>>),
    \* 3: two files at the first level; four bytes in all
    Upload(F_zip, 4, FALSE,
           <<Entry(<<"i", "n", "d", "e", "x", ".", "h", "t", "m", "l">>, "file", <<"x", "x">>),
             Entry(<<"c">>, "file", <<"y", "y">>)>>),
    \* 4: an entry that climbs out of the staging directory
    Upload(F_tgz, 2, FALSE,
           <<Entry(<<"o", "k">>, "file", <<"x">>),
             Entry(<<".", ".", "/", "x">>, "file", <<"x">>)>>),
    \* 5: a suffix no decoder is selected for
    Upload(F_rar, 2, FALSE, <<Entry(<<"c">>, "file", <<"x">>)>>),
    \* 6: more bytes than max_upload_bytes
    Upload(F_zip, 5, FALSE, <<Entry(<<"c">>, "file", <<"x">>)>>),
    \* 7: bytes that are no zip archive
    Upload(F_zip, 4, TRUE, <<>>),
    \* 8: as 1, in the other archive format
    Upload(F_tgz, 2, FALSE,
           <<Entry(<<"a", "/", "b", ".", "t", "x", "t">>, "file", <<"h", "i">>)>>),
    \* 9: another version of index.html, and an index.html inside d
    Upload(F_zip, 2, FALSE,
           <<Entry(<<"i", "n", "d", "e", "x", ".", "h", "t", "m", "l">>, "file", <<"n">>),
             Entry(<<"d", "/", "i", "n", "d", "e", "x", ".", "h", "t", "m", "l">>, "file", <<"m">>)>>)
>>

NoResult == [kind |-> "None", detail |-> "", disk_usage_bytes |-> 0]
Failure(kind, detail) == [kind |-> kind, detail |-> detail, disk_usage_bytes |-> 0]
Success(total) == [kind |-> "Ok", detail |-> "", disk_usage_bytes |-> total]

NoCall ==
    [user |-> <<>>, upl |-> 0, total |-> 0, staged |-> Absent, prior |-> Absent,
     moved |-> FALSE, todo |-> <<>>, result |-> NoResult]

\* One filesystem call of upload_site on a shared directory, as recorded in trace.
Op(name, src, dst, ok) == [op |-> name, src |-> src, dst |-> dst, ok |-> ok]

\* The decoder upload_site selects by the suffix of the file name.
Decoder(filename) ==
    IF EndsWith(filename, <<".", "z", "i", "p">>) THEN "zip"
    ELSE IF EndsWith(filename, <<".", "t", "a", "r", ".", "g", "z">>)
            \/ EndsWith(filename, <<".", "t", "g", "z">>) THEN "tar"
    ELSE "unsupported"

\* The quota test of upload_site with >= in place of >.
OverQuota_Inclusive(total) == total >= DiskQuotaBytes

\* The quota test of upload_site.
OverQuota(total) == total > DiskQuotaBytes

\* The size test on the uploaded bytes.
TooLarge(len) == len > MaxUploadBytes

Staged(res, f, tempdir, total) == [result |-> res, fs |-> f, tempdir |-> tempdir, total |-> total]

\* Lines 99-107: the staged size is held against the quota.
QuotaCheck(f, total) ==
    IF OverQuota(total) THEN Staged(Failure("PayloadTooLarge", "quota"), f, TRUE, total)
    ELSE Staged(NoResult, f, TRUE, total)

\* Lines 89-107 on the created staging directory tmp.
StageExtract(f1, tmp, upl, fmt) ==
    IF fmt = "unsupported" THEN Staged(Failure("BadRequest", "UnsupportedFormat"), f1, TRUE, 0)
    ELSE IF upl.corrupt THEN Staged(Failure("BadRequest", "CorruptArchive"), f1, TRUE, 0)
    ELSE With(Extract(f1, tmp, upl.entries, fmt), LAMBDA ex :
             IF ~ex.ok
             THEN Staged(IF ex.err = "Io" THEN Failure("Internal", "extract")
                         ELSE Failure("BadRequest", ex.err), ex.fs, TRUE, 0)
             ELSE QuotaCheck(ex.fs, TotalSize(ex.fs, tmp)))

\* upload_site from the upload's size test to the quota test, on the staging
\* directory tmp: the result (NoResult when the staged tree may be published),
\* the filesystem holding the staged tree, whether the staging directory was
\* created, and the staged size.
StageOutcome(f, tmp, upl) ==
    IF TooLarge(upl.len) THEN Staged(Failure("PayloadTooLarge", "upload"), f, FALSE, 0)
    ELSE StageExtract(create_dir_all(f, tmp).fs, tmp, upl, Decoder(upl.filename))

\* The calls copy_dir_recursive makes for the directory src \o rel, in the orders
\* read_dir may yield the entries: the directory is created, then each entry in
\* turn, a subdirectory completely before the next entry.
RECURSIVE CopyOrders(_, _, _)
RECURSIVE EntryOrders(_, _, _)
CopyOrders(f, src, rel) ==
    {<<[op |-> "mkdir", rel |-> rel]>> \o rest : rest \in EntryOrders(f, src, Children(f, src \o rel))}

EntryOrders(f, src, cs) ==
    IF cs = {} THEN {<<>>}
    ELSE UNION {
           {a \o b : a \in (IF f[c].kind = "dir"
                             THEN CopyOrders(f, src, SubSeq(c, Len(src) + 1, Len(c)))
                             ELSE {<<[op |-> "copy", rel |-> SubSeq(c, Len(src) + 1, Len(c))]>>}),
                     b \in EntryOrders(f, src, cs \ {c})}
           : c \in cs}

\* std::fs::copy: the target is opened for writing through symbolic links.
RECURSIVE CopyFile(_, _, _, _)
CopyFile(f, target, d, fuel) ==
    IF target \in DOMAIN f /\ f[target].kind = "link"
    THEN IF fuel = 0 THEN FsErr(f) ELSE CopyFile(f, f[target].target, d, fuel - 1)
    ELSE WriteFile(f, target, d)

\* One call of copy_dir_recursive(src, dst).
CopyItem(f, src, dst, item) ==
    IF item.op = "mkdir" THEN create_dir_all(f, dst \o item.rel)
    ELSE CopyFile(f, dst \o item.rel, f[src \o item.rel].data, MaxLinkDepth)

\* A TempDir guard whose drop removes nothing.
DropTemp_Keep(f, p) == f

\* Dropping the TempDir guard when upload_site returns removes the staging directory.
DropTemp(f, p) == remove_dir_all(f, TempDir(p))

Finish(p, f, res) ==
    /\ fs' = DropTemp(f, p)
    /\ pc' = [pc EXCEPT ![p] = "done"]
    /\ call' = [call EXCEPT ![p].result = res, ![p].todo = <<>>]

\* Lines 49-107: the upload is read and measured, the staging directory created,
\* the archive extracted and flattened, and the staged size held against the
\* quota.  Nothing outside the private staging directory is touched.
Stage(p, u, k) ==
    \E so \in {StageOutcome(fs, TempDir(p), Uploads[k])},
       c0 \in {[NoCall EXCEPT !.user = u, !.upl = k, !.prior = TreeAt(fs, SiteDir(u))]} :
        /\ pc[p] = "idle"
        /\ trace' = [trace EXCEPT ![p] =
                        IF so.tempdir THEN <<Op("tempdir", <<>>, TempDir(p), TRUE)>> ELSE <<>>]
        /\ resp' = NoResp
        /\ IF so.result.kind # "None"
           THEN /\ fs' = DropTemp(so.fs, p)
                /\ pc' = [pc EXCEPT ![p] = "done"]
                /\ call' = [call EXCEPT ![p] = [c0 EXCEPT !.result = so.result, !.total = so.total]]
           ELSE /\ fs' = so.fs
                /\ pc' = [pc EXCEPT ![p] = "rm_old"]
                /\ call' = [call EXCEPT ![p] =
                               [c0 EXCEPT !.total = so.total, !.staged = TreeAt(so.fs, TempDir(p))]]
        /\ api' = NoApi
        /\ UNCHANGED <<crossDevice, saved, raw, kindIn, san, xfs, ftree, fres, req, post, db>>

\* The publish steps without line 114: a leftover backup stays where it is.
RemoveLeftover_Skip(p) ==
    /\ pc[p] = "rm_old"
    /\ pc' = [pc EXCEPT ![p] = "check"]
    /\ UNCHANGED <<fs, crossDevice, call, trace, saved, resp, raw, kindIn, san, xfs, api, ftree, fres, req, post, db>>

\* Line 114: remove any leftover old dir, the error ignored.
RemoveLeftover(p) ==
    LET old_dir == OldDir(call[p].user)
    IN  /\ pc[p] = "rm_old"
        /\ fs' = remove_dir_all(fs, old_dir)
        /\ trace' = [trace EXCEPT ![p] = Append(@, Op("remove_dir_all", old_dir, <<>>, TRUE))]
        /\ pc' = [pc EXCEPT ![p] = "check"]
        /\ UNCHANGED <<crossDevice, call, saved, resp, raw, kindIn, san, xfs, api, ftree, fres, req, post, db>>

\* The publish steps without the backup of the live tree: the staged tree is
\* moved onto whatever is live.
CheckSite_Skip(p) ==
    /\ pc[p] = "check"
    /\ pc' = [pc EXCEPT ![p] = "promote"]
    /\ UNCHANGED <<fs, crossDevice, call, trace, saved, resp, raw, kindIn, san, xfs, api, ftree, fres, req, post, db>>

\* Line 117: site_dir.exists()
CheckSite(p) ==
    /\ pc[p] = "check"
    /\ pc' = [pc EXCEPT ![p] = IF Exists(fs, SiteDir(call[p].user)) THEN "backup" ELSE "promote"]
    /\ UNCHANGED <<fs, crossDevice, call, trace, saved, resp, raw, kindIn, san, xfs, api, ftree, fres, req, post, db>>

\* Line 118: the live tree is renamed to the backup location.
BackupOk(p) ==
    LET site_dir == SiteDir(call[p].user)
        old_dir == OldDir(call[p].user)
    IN  /\ pc[p] = "backup"
        /\ RenameOk(fs, site_dir, old_dir)
        /\ fs' = Rename(fs, site_dir, old_dir)
        /\ trace' = [trace EXCEPT ![p] = Append(@, Op("rename", site_dir, old_dir, TRUE))]
        /\ call' = [call EXCEPT ![p].moved = TRUE]
        /\ pc' = [pc EXCEPT ![p] = "promote"]
        /\ UNCHANGED <<crossDevice, saved, resp, raw, kindIn, san, xfs, api, ftree, fres, req, post, db>>

\* Line 118 when the rename fails (the kernel refuses it, or an I/O error): the
\* error is returned by "?".
BackupFail(p) ==
    LET site_dir == SiteDir(call[p].user)
        old_dir == OldDir(call[p].user)
    IN  /\ pc[p] = "backup"
        /\ trace' = [trace EXCEPT ![p] = Append(@, Op("rename", site_dir, old_dir, FALSE))]
        /\ Finish(p, fs, Failure("Internal", "backup"))
        /\ UNCHANGED <<crossDevice, saved, resp, raw, kindIn, san, xfs, api, ftree, fres, req, post, db>>

\* Line 122: the staging directory is renamed to the live location.
PromoteRename(p) ==
    LET site_dir == SiteDir(call[p].user)
    IN  /\ pc[p] = "promote"
        /\ ~crossDevice
        /\ RenameOk(fs, TempDir(p), site_dir)
        /\ fs' = Rename(fs, TempDir(p), site_dir)
        /\ trace' = [trace EXCEPT ![p] = Append(@, Op("rename", TempDir(p), site_dir, TRUE))]
        /\ pc' = [pc EXCEPT ![p] = "cleanup"]
        /\ UNCHANGED <<crossDevice, call, saved, resp, raw, kindIn, san, xfs, api, ftree, fres, req, post, db>>

\* Lines 122-124: the rename fails (another device, or the kernel refuses the
\* target) and copy_dir_recursive takes over.
PromoteFallback(p) ==
    LET site_dir == SiteDir(call[p].user)
    IN  /\ pc[p] = "promote"
        /\ crossDevice \/ ~RenameOk(fs, TempDir(p), site_dir)
        /\ \E order \in CopyOrders(fs, TempDir(p), <<>>) :
              call' = [call EXCEPT ![p].todo = order]
        /\ trace' = [trace EXCEPT ![p] = Append(@, Op("rename", TempDir(p), site_dir, FALSE))]
        /\ pc' = [pc EXCEPT ![p] = "copy"]
        /\ UNCHANGED <<fs, crossDevice, saved, resp, raw, kindIn, san, xfs, api, ftree, fres, req, post, db>>

\* The content a failed promote leaves to be recovered: what was live when the
\* call began, unless an earlier failure's content is still waiting.
SaveOnFailure(p) ==
    LET u == call[p].user
    IN  IF saved[u].present \/ ~call[p].moved THEN saved
        ELSE [saved EXCEPT ![u] = call[p].prior]

\* One call of copy_dir_recursive succeeds.
CopyStepOk(p) ==
    LET site_dir == SiteDir(call[p].user)
        item == Head(call[p].todo)
    IN  /\ pc[p] = "copy"
        /\ call[p].todo # <<>>
        /\ \E r \in {CopyItem(fs, TempDir(p), site_dir, item)} :
              r.ok /\ fs' = r.fs
        /\ trace' = [trace EXCEPT ![p] = Append(@, Op(item.op, TempDir(p) \o item.rel, site_dir \o item.rel, TRUE))]
        /\ call' = [call EXCEPT ![p].todo = Tail(@)]
        /\ pc' = [pc EXCEPT ![p] = IF Len(call[p].todo) = 1 THEN "cleanup" ELSE "copy"]
        /\ UNCHANGED <<crossDevice, saved, resp, raw, kindIn, san, xfs, api, ftree, fres, req, post, db>>

\* One call of copy_dir_recursive fails (the target is in the way, or an I/O
\* error such as a full disk): line 125 returns the error by "?".
CopyStepFail(p) ==
    LET site_dir == SiteDir(call[p].user)
        item == Head(call[p].todo)
    IN  /\ pc[p] = "copy"
        /\ call[p].todo # <<>>
        /\ trace' = [trace EXCEPT ![p] = Append(@, Op(item.op, TempDir(p) \o item.rel, site_dir \o item.rel, FALSE))]
        /\ saved' = SaveOnFailure(p)
        /\ Finish(p, fs, Failure("Internal", "promote"))
        /\ UNCHANGED <<crossDevice, resp, raw, kindIn, san, xfs, api, ftree, fres, req, post, db>>

\* Lines 128-136: the backup is removed, the error ignored, and success reported
\* with the staged size.
Cleanup(p) ==
    LET old_dir == OldDir(call[p].user)
    IN  /\ pc[p] = "cleanup"
        /\ trace' = [trace EXCEPT ![p] = Append(@, Op("remove_dir_all", old_dir, <<>>, TRUE))]
        /\ saved' = [saved EXCEPT ![call[p].user] = Absent]
        /\ Finish(p, remove_dir_all(fs, old_dir), Success(call[p].total))
        /\ UNCHANGED <<crossDevice, resp, raw, kindIn, san, xfs, api, ftree, fres, req, post, db>>

\* The response has been delivered; the call is over.
Return(p) ==
    /\ pc[p] = "done"
    /\ pc' = [pc EXCEPT ![p] = "idle"]
    /\ call' = [call EXCEPT ![p] = NoCall]
    /\ trace' = [trace EXCEPT ![p] = <<>>]
    /\ UNCHANGED <<fs, crossDevice, saved, resp, raw, kindIn, san, xfs, api, ftree, fres, req, post, db>>

\* The steps of upload_site after staging when no filesystem call fails for a
\* reason outside the model (the rename across devices still falls back to the copy).
PublishOk(p) ==
    \/ RemoveLeftover(p)
    \/ CheckSite(p)
    \/ BackupOk(p)
    \/ PromoteRename(p)
    \/ PromoteFallback(p)
    \/ CopyStepOk(p)
    \/ Cleanup(p)
    \/ Return(p)

\* The steps of upload_site after staging.
Publish(p) ==
    \/ PublishOk(p)
    \/ BackupFail(p)
    \/ CopyStepFail(p)

-----------------------------------------------------------------------------
(* Requests served and the environment of the sites directory *)

N_link == <<"l">>

\* The user names requests arrive with: a registered user, and two names
\* registration does not admit, that user's backup directory and "..".
ReqUsers == Users \cup {WithExtension(u, Ext_old) : u \in Users} \cup {N_dotdot}

\* The request paths the model draws from.
ReqPaths == {
    <<"b", ".", "t", "x", "t">>,
    <<"a", "/", "b", ".", "t", "x", "t">>,
    N_index,
    <<"d">>,
    <<"d", "/", "c">>,
    <<".">>,
    <<"l">>,
    <<"l", "/", "p", "a", "g", "e", "s", ".", "d", "b">>,
    <<".", ".", "/", "u", ".", "o", "l", "d", "/", "b", ".", "t", "x", "t">>,
    <<".", ".", "/", ".", ".", "/", "p", "a", "g", "e", "s", ".", "d", "b">>,
    <<"/", "d", "a", "t", "a", "/", "p", "a", "g", "e", "s", ".", "d", "b">>,
    <<"n", "o">>
}

Links(f) == {p \in DOMAIN f : f[p].kind = "link"}

\* The environment (an operator with shell access, another program) plants a
\* symbolic link inside a user's live site while no deployment is running.
PlantSymlink(dir, name, target) ==
    /\ \A p \in Procs : pc[p] = "idle"
    /\ Cardinality(Links(fs)) < MaxLinks
    /\ dir \in DOMAIN fs /\ fs[dir].kind = "dir"
    /\ \E u \in Users : StartsWith(dir, SiteDir(u))
    /\ Append(dir, name) \notin DOMAIN fs
    /\ fs' = [x \in DOMAIN fs \cup {Append(dir, name)} |->
                 IF x = Append(dir, name) THEN LinkNode(target) ELSE fs[x]]
    /\ resp' = NoResp
    /\ api' = NoApi
    /\ UNCHANGED <<crossDevice, pc, call, trace, saved, raw, kindIn, san, xfs, ftree, fres, req, post, db>>

\* delete_site for the authenticated user u, while no deployment is running:
\* the site directory is removed and created again only when it exists.
DeleteSite(u) ==
    /\ \A p \in Procs : pc[p] = "idle"
    /\ fs' = IF Exists(fs, SiteDir(u))
             THEN create_dir_all(remove_dir_all(fs, SiteDir(u)), SiteDir(u)).fs
             ELSE fs
    /\ api' = ApiResponse("delete_site", u, "Ok", <<>>, 0)
    /\ resp' = NoResp
    /\ UNCHANGED <<crossDevice, pc, call, trace, saved, raw, kindIn, san, xfs, ftree, fres, req, post, db>>

\* get_site_info for the authenticated user u.
GetSiteInfo(u) ==
    /\ \A p \in Procs : pc[p] \in {"idle", "done"}
    /\ \E l \in {list_files_recursive(fs, SiteDir(u))} :
          api' = ApiResponse("get_site_info", u, "Ok", l.files, l.total)
    /\ UNCHANGED <<fs, crossDevice, pc, call, trace, saved, resp, raw, kindIn, san, xfs, ftree, fres, req, post, db>>

\* serve_user_site: GET /{username}/{*path}, handled while no deployment step is pending.
Serve(username, path) ==
    /\ \A p \in Procs : pc[p] \in {"idle", "done"}
    /\ resp' = [route |-> "site", user |-> username, path |-> path,
                r |-> serve_file(fs, username, path)]
    /\ UNCHANGED <<fs, crossDevice, pc, call, trace, saved, raw, kindIn, san, xfs, api, ftree, fres, req, post, db>>

\* serve_user_site_index: GET /{username}/ is serve_file for "index.html".
ServeIndex(username) ==
    /\ \A p \in Procs : pc[p] \in {"idle", "done"}
    /\ resp' = [route |-> "index", user |-> username, path |-> N_index,
                r |-> serve_file(fs, username, N_index)]
    /\ UNCHANGED <<fs, crossDevice, pc, call, trace, saved, raw, kindIn, san, xfs, api, ftree, fres, req, post, db>>

-----------------------------------------------------------------------------
(* serve_file call by call, while a deployment's publish steps run *)

NoReq ==
    [pc |-> "idle", user |-> <<>>, path |-> <<>>, canonical_sites |-> <<>>,
     target |-> <<>>, live |-> Absent, versions |-> <<Absent, Absent>>,
     r |-> Response("None", <<>>, "", <<>>)]

\* The request paths of the concurrent specification.
RacePaths == {<<"b", ".", "t", "x", "t">>, N_index, <<"d", "/", "c">>, <<"d">>}

\* The tree the deployment in progress for the request's user found live and the
\* tree it staged; the live tree the request began with when there is none.
Versions ==
    IF \E p \in Procs : pc[p] # "idle" /\ call[p].user = req.user
    THEN With(CHOOSE p \in Procs : pc[p] # "idle" /\ call[p].user = req.user, LAMBDA p :
             <<call[p].prior, call[p].staged>>)
    ELSE <<req.live, req.live>>

\* serve_file returns r.
Respond(r) ==
    req' = [req EXCEPT !.pc = "done", !.r = r, !.versions = Versions]

\* Lines 169-182: the user name is validated and sites_dir canonicalized (the
\* sites directory itself is never renamed).
ServeFileBegin(username, path) ==
    /\ req.pc \in {"idle", "done"}
    /\ \E r0 \in {[NoReq EXCEPT !.user = username, !.path = path,
                                 !.live = TreeAt(fs, Append(SitesDir, username))]},
          cs \in {Canonicalize(fs, SitesDir)} :
          req' = IF ~ValidUsername(username)
                 THEN [r0 EXCEPT !.pc = "done", !.r = NotFound, !.versions = <<r0.live, r0.live>>]
                 ELSE [r0 EXCEPT !.pc = "canonicalize",
                                 !.canonical_sites = IF cs.ok THEN cs.path ELSE SitesDir]
    /\ UNCHANGED <<fs, crossDevice, pc, call, trace, saved, resp, raw, kindIn, san, xfs, api, ftree, fres, post, db>>

\* Lines 183-189: file_path.canonicalize() and the containment test.
ServeFileCanonicalize ==
    /\ req.pc = "canonicalize"
    /\ \E cf \in {Canonicalize(fs, FilePath(req.user, req.path))} :
          IF ~cf.ok \/ (MustBeDir(req.path) /\ KindOf(fs, cf.path) # "dir") THEN Respond(NotFound)
          ELSE IF ~StartsWith(cf.path, Append(req.canonical_sites, req.user)) THEN Respond(Forbidden)
          ELSE req' = [req EXCEPT !.pc = "is_dir", !.target = cf.path]
    /\ UNCHANGED <<fs, crossDevice, pc, call, trace, saved, resp, raw, kindIn, san, xfs, api, ftree, fres, post, db>>

\* Line 191: canonical_file.is_dir(), false for a path that no longer exists.
ServeFileIsDir ==
    /\ req.pc = "is_dir"
    /\ req' = IF Exists(fs, req.target) /\ KindOf(fs, Canonicalize(fs, req.target).path) = "dir"
              THEN [req EXCEPT !.pc = "index", !.target = Append(@, N_index)]
              ELSE [req EXCEPT !.pc = "read"]
    /\ UNCHANGED <<fs, crossDevice, pc, call, trace, saved, resp, raw, kindIn, san, xfs, api, ftree, fres, post, db>>

\* Lines 193-197: index.exists()
ServeFileIndex ==
    /\ req.pc = "index"
    /\ IF Exists(fs, req.target) THEN req' = [req EXCEPT !.pc = "read"]
       ELSE Respond(NotFound)
    /\ UNCHANGED <<fs, crossDevice, pc, call, trace, saved, resp, raw, kindIn, san, xfs, api, ftree, fres, post, db>>

\* Lines 195 and 200: serve_static_file reads the whole file.  No deployment
\* step writes into a file below sites/, so the bytes read are one file's.
ServeFileRead ==
    /\ req.pc = "read"
    /\ Respond(serve_static_file(fs, req.target))
    /\ UNCHANGED <<fs, crossDevice, pc, call, trace, saved, resp, raw, kindIn, san, xfs, api, ftree, fres, post, db>>

-----------------------------------------------------------------------------
(* The sanitizer and one-entry extraction, over every raw path up to MaxRawLen *)

Alphabet == {"/", ".", "a"}

RawPaths == UNION {[1..n -> Alphabet] : n \in 0..MaxRawLen}

NoSan == [ok |-> FALSE, path |-> <<>>, err |-> "NotRun"]

\* The staging directory of the harness.
Dest == TempDir(1)

InitFs ==
    LET dirs == {<<N_data>>, SitesDir, <<N_tmp>>} \cup {SiteDir(u) : u \in Users}
    IN  [x \in dirs \cup {DbPath} |-> IF x = DbPath THEN FileNode(<<"k", "e", "y">>) ELSE DirNode]

\* The filesystem the harness extracts into: the staging directory exists.
StagingFs == create_dir_all(InitFs, Dest).fs

\* extract_zip or extract_tar_gz runs on the archive whose only entry has the raw path.
ExtractOne ==
    /\ san.err = "NotRun"
    /\ san' = sanitize_archive_path(raw)
    /\ xfs' = Extract(StagingFs, Dest, <<Entry(raw, kindIn.kind, <<"x">>)>>, kindIn.fmt).fs
    /\ UNCHANGED <<fs, crossDevice, pc, call, trace, saved, resp, raw, kindIn, api, ftree, fres, req, post, db>>

-----------------------------------------------------------------------------
(* flatten_single_root on its own, over staged trees built from FlatLeaves *)

N_w == <<"w">>
N_x == <<"x">>

\* The entries a staged tree of the harness is built from: relative path and kind.
FlatLeaves == {
    [rel |-> <<N_w>>, kind |-> "dir"],
    [rel |-> <<N_w, N_x>>, kind |-> "file"],
    [rel |-> <<N_w, N_w>>, kind |-> "dir"],
    [rel |-> <<N_w, N_w, N_x>>, kind |-> "file"],
    [rel |-> <<N_x>>, kind |-> "file"],
    [rel |-> <<N_w, N_flatten>>, kind |-> "file"],
    [rel |-> <<N_flatten>>, kind |-> "dir"],
    [rel |-> <<N_flatten, N_x>>, kind |-> "file"]
}

\* The staging directory after the entries were extracted into it; a file's
\* content is the last name of its path.
RECURSIVE BuildTree(_, _)
BuildTree(f, leaves) ==
    IF leaves = {} THEN f
    ELSE With(CHOOSE l \in leaves : TRUE, LAMBDA l :
             BuildTree(IF l.kind = "dir" THEN create_dir_all(f, Dest \o l.rel).fs
                       ELSE WriteEntry(f, Dest \o l.rel, FileName(l.rel)).fs,
                       leaves \ {l}))

FlatTrees == {BuildTree(StagingFs, ls) : ls \in SUBSET FlatLeaves}

NoFlat == [run |-> FALSE, ok |-> FALSE, fs |-> StagingFs]

\* flatten_single_root(dest) runs on the staged tree.
FlattenStep ==
    /\ ~fres.run
    /\ \E r \in {flatten_single_root(ftree, Dest)} :
          fres' = [run |-> TRUE, ok |-> r.ok, fs |-> r.fs]
    /\ UNCHANGED <<fs, crossDevice, pc, call, trace, saved, resp, raw, kindIn, san, xfs, api, ftree, req, post, db>>

-----------------------------------------------------------------------------
(* One POST /api/site/upload through the body limit of the router *)

NoPost ==
    [filename |-> F_zip, len |-> 0, framing |-> 1, declared |-> TRUE,
     done |-> FALSE, result |-> NoResult, tempdir |-> FALSE]

\* The requests of the harness: the file's length, the bytes of the body read
\* up to the end of the file part that are not the file's (part headers,
\* boundaries, fields before the file), and whether a Content-Length header
\* declares the body's length.
Posts ==
    [filename : {F_zip, F_rar},
     len : 0..(MaxUploadBytes + BodySlack + MaxFraming),
     framing : 1..MaxFraming,
     declared : BOOLEAN,
     done : {FALSE}, result : {NoResult}, tempdir : {FALSE}]

\* RequestBodyLimitLayer::new(max_upload_bytes + 1024)
BodyLimit == MaxUploadBytes + BodySlack

\* The request through RequestBodyLimitLayer and upload_site up to the quota
\* test.  A declared length over the limit is answered 413 by the layer and the
\* handler is not called.  An undeclared body is cut off at the limit: the
\* read of the multipart field fails and upload_site answers BadRequest.
\* Otherwise the bytes reach the size test of line 71.
PostOutcome(f, tmp, q) ==
    IF q.len + q.framing > BodyLimit
    THEN IF q.declared THEN Staged(Failure("PayloadTooLarge", "layer"), f, FALSE, 0)
         ELSE Staged(Failure("BadRequest", "Multipart"), f, FALSE, 0)
    ELSE StageOutcome(f, tmp, Upload(q.filename, q.len, FALSE, <<Entry(<<"c">>, "file", <<"x">>)>>))

\* The request is received and answered, or staged.
ReceiveUpload ==
    /\ ~post.done
    /\ \E so \in {PostOutcome(InitFs, Dest, post)} :
          post' = [post EXCEPT !.done = TRUE, !.result = so.result, !.tempdir = so.tempdir]
    /\ UNCHANGED <<fs, crossDevice, pc, call, trace, saved, resp, raw, kindIn, san, xfs, api, ftree, fres, req, db>>

-----------------------------------------------------------------------------
(* The database: Db::register_user, create_invite_code, delete_invite_code *)

\* The tasks that call the database concurrently.
DbProcs == {1, 2}

\* The invite codes and user names the calls are made with.
Codes == {"c1", "c2"}
Names == {"u", "v"}

\* A row of invite_codes: missing, or present with used_by NULL or a user name.
NoRow == "absent"
Unused == "unused"

NoDbCall ==
    [pc |-> "idle", kind |-> "none", username |-> "", code |-> "", result |-> "none",
     before |-> [c \in Codes |-> NoRow], after |-> [c \in Codes |-> NoRow]]

\* The database after Db::open: both tables empty, the mutex free.  consumed
\* records, for each code, the user names whose register_user call with that
\* code returned Ok.
NoDb ==
    [users |-> {}, codes |-> [c \in Codes |-> NoRow], holder |-> 0,
     consumed |-> [c \in Codes |-> {}], op |-> [p \in DbProcs |-> NoDbCall]]

\* A connection handed out without waiting for its holder.
MutexFree_Always(p) == TRUE

\* self.conn.lock(): the mutex is free.
MutexFree(p) == db.holder = 0

\* A handler calls one of the three methods.
DbCall(p, kind, username, code) ==
    /\ db.op[p].pc \in {"idle", "done"}
    /\ db' = [db EXCEPT !.op[p] = [NoDbCall EXCEPT !.pc = "lock", !.kind = kind,
                                                   !.username = username, !.code = code]]
    /\ UNCHANGED <<fs, crossDevice, pc, call, trace, saved, resp, raw, kindIn, san, xfs, api, ftree, fres, req, post>>

\* let conn = self.conn.lock().unwrap(): the guard is held to the method's end.
DbLock(p) ==
    /\ db.op[p].pc = "lock"
    /\ MutexFree(p)
    /\ db' = [db EXCEPT !.holder = p,
                        !.op[p].before = db.codes,
                        !.op[p].pc = CASE db.op[p].kind = "register_user" -> "check"
                                       [] db.op[p].kind = "create_invite_code" -> "create"
                                       [] OTHER -> "delete"]
    /\ UNCHANGED <<fs, crossDevice, pc, call, trace, saved, resp, raw, kindIn, san, xfs, api, ftree, fres, req, post>>

\* The method returns res and its guard is dropped.
DbReturn(d, p, res) ==
    [d EXCEPT !.holder = 0, !.op[p].pc = "done", !.op[p].result = res, !.op[p].after = d.codes]

\* register_user, lines 99-111: the code must exist with used_by NULL.
RegisterCheck(p) ==
    /\ db.op[p].pc = "check"
    /\ db' = IF db.codes[db.op[p].code] = Unused
             THEN [db EXCEPT !.op[p].pc = "insert"]
             ELSE DbReturn(db, p, "BadRequest")
    /\ UNCHANGED <<fs, crossDevice, pc, call, trace, saved, resp, raw, kindIn, san, xfs, api, ftree, fres, req, post>>

\* register_user, lines 114-127: INSERT INTO users; username is UNIQUE.
RegisterInsert(p) ==
    /\ db.op[p].pc = "insert"
    /\ db' = IF db.op[p].username \in db.users
             THEN DbReturn(db, p, "Conflict")
             ELSE [db EXCEPT !.users = @ \cup {db.op[p].username}, !.op[p].pc = "update"]
    /\ UNCHANGED <<fs, crossDevice, pc, call, trace, saved, resp, raw, kindIn, san, xfs, api, ftree, fres, req, post>>

\* register_user, lines 130-135: UPDATE ... WHERE code = ?2 AND used_by IS NULL,
\* then Ok whatever the number of rows updated.
RegisterUpdate(p) ==
    LET c == db.op[p].code
        u == db.op[p].username
    IN  /\ db.op[p].pc = "update"
        /\ db' = DbReturn([db EXCEPT !.codes[c] = IF @ = Unused THEN u ELSE @,
                                     !.consumed[c] = @ \cup {u}], p, "Ok")
        /\ UNCHANGED <<fs, crossDevice, pc, call, trace, saved, resp, raw, kindIn, san, xfs, api, ftree, fres, req, post>>

\* create_invite_code, lines 84-88: INSERT; code is the primary key.
CreateInviteCode(p) ==
    LET c == db.op[p].code
    IN  /\ db.op[p].pc = "create"
        /\ db' = IF db.codes[c] = NoRow
                 THEN DbReturn([db EXCEPT !.codes[c] = Unused], p, "Ok")
                 ELSE DbReturn(db, p, "Internal")
        /\ UNCHANGED <<fs, crossDevice, pc, call, trace, saved, resp, raw, kindIn, san, xfs, api, ftree, fres, req, post>>

\* delete_invite_code, lines 155-162: DELETE ... WHERE code = ?1 AND used_by IS NULL.
DeleteInviteCode(p) ==
    LET c == db.op[p].code
    IN  /\ db.op[p].pc = "delete"
        /\ db' = IF db.codes[c] = Unused
                 THEN DbReturn([db EXCEPT !.codes[c] = NoRow], p, "Deleted")
                 ELSE DbReturn(db, p, "NotDeleted")
        /\ UNCHANGED <<fs, crossDevice, pc, call, trace, saved, resp, raw, kindIn, san, xfs, api, ftree, fres, req, post>>

-----------------------------------------------------------------------------
(* Specifications *)

InitPipeline ==
    /\ fs = InitFs
    /\ crossDevice \in BOOLEAN
    /\ pc = [p \in Procs |-> "idle"]
    /\ call = [p \in Procs |-> NoCall]
    /\ trace = [p \in Procs |-> <<>>]
    /\ saved = [u \in Users |-> Absent]
    /\ resp = NoResp
    /\ api = NoApi
    /\ req = NoReq
    /\ db = NoDb

\* The harnesses at rest.
InitHarness ==
    /\ raw = <<>>
    /\ kindIn = [fmt |-> "zip", kind |-> "file"]
    /\ san = NoSan
    /\ xfs = StagingFs
    /\ ftree = StagingFs
    /\ fres = NoFlat
    /\ post = NoPost

\* The server after start-up, every registered user's site empty.
Init ==
    /\ InitPipeline
    /\ InitHarness

\* The request paths of the sequential specification.
SeqPaths == {<<"b", ".", "t", "x", "t">>, <<"a", "/", "b", ".", "t", "x", "t">>, N_index}

\* One upload_site call at a time, with I/O failures, and requests served
\* between its steps' ends.
NextSeq ==
    \/ \E u \in Users, k \in 1..Len(Uploads) : Stage(1, u, k)
    \/ Publish(1)
    \/ \E u \in Users : DeleteSite(u)
    \/ \E u \in Users, path \in SeqPaths : Serve(u, path)

SpecSeq == Init /\ [][NextSeq]_vars

\* The uploads whose staged tree is published.
Publishable == {1, 2}

\* Serving in every filesystem state deployments without I/O failures and the
\* environment's symbolic links produce.
NextServe ==
    \/ \E u \in Users, k \in Publishable : Stage(1, u, k)
    \/ PublishOk(1)
    \/ \E dir \in DOMAIN fs :
          \/ PlantSymlink(dir, N_index, DbPath)
          \/ PlantSymlink(dir, N_link, <<N_data>>)
    \/ \E u \in ReqUsers, path \in ReqPaths : Serve(u, path)
    \/ \E u \in ReqUsers : ServeIndex(u)
    \/ \E u \in Users : GetSiteInfo(u)

SpecServe == Init /\ [][NextServe]_vars

\* Every raw archive path of the alphabet, as a regular file, a directory or a
\* symbolic link entry of either archive format.
InitSan ==
    /\ InitPipeline
    /\ crossDevice = FALSE
    /\ raw \in RawPaths
    /\ kindIn \in [fmt : {"zip", "tar"}, kind : {"file", "dir", "symlink"}]
    /\ san = NoSan
    /\ xfs = StagingFs
    /\ ftree = StagingFs
    /\ fres = NoFlat
    /\ post = NoPost

NextSan == ExtractOne

SpecSan == InitSan /\ [][NextSan]_vars

\* Two upload_site calls, one per process, on one device, without I/O
\* failures other than a rename the kernel refuses; their steps interleave in
\* every order.
InitConc ==
    /\ InitPipeline
    /\ InitHarness
    /\ crossDevice = FALSE

NextConc ==
    \E p \in Procs :
        \/ \E u \in Users, k \in Publishable : Stage(p, u, k)
        \/ RemoveLeftover(p)
        \/ CheckSite(p)
        \/ BackupOk(p)
        \/ PromoteRename(p)
        \/ PromoteFallback(p)
        \/ CopyStepOk(p)
        \/ Cleanup(p)

SpecConc == InitConc /\ [][NextConc]_vars

\* Concurrent calls on the database, in every interleaving of their steps.
NextDb ==
    \E p \in DbProcs :
        \/ \E u \in Names, c \in Codes : DbCall(p, "register_user", u, c)
        \/ \E c \in Codes : DbCall(p, "create_invite_code", "", c)
        \/ \E c \in Codes : DbCall(p, "delete_invite_code", "", c)
        \/ DbLock(p)
        \/ RegisterCheck(p)
        \/ RegisterInsert(p)
        \/ RegisterUpdate(p)
        \/ CreateInviteCode(p)
        \/ DeleteInviteCode(p)

SpecDb == InitConc /\ [][NextDb]_vars

\* Every request of the upload harness.
InitLimit ==
    /\ InitPipeline
    /\ crossDevice = FALSE
    /\ raw = <<>>
    /\ kindIn = [fmt |-> "zip", kind |-> "file"]
    /\ san = NoSan
    /\ xfs = StagingFs
    /\ ftree = StagingFs
    /\ fres = NoFlat
    /\ post \in Posts

NextLimit == ReceiveUpload

SpecLimit == InitLimit /\ [][NextLimit]_vars

\* The request paths of the backup specification.
BackupPaths == {
    <<"b", ".", "t", "x", "t">>,
    N_index,
    <<".">>,
    <<".", ".", "/", "u", ".", "o", "l", "d", "/", "b", ".", "t", "x", "t">>
}

\* One upload_site call at a time, with I/O failures that leave a backup
\* behind, a symbolic link planted in the live site that names a file of the
\* backup, and requests for every user name.
NextBackup ==
    \/ \E u \in Users, k \in Publishable : Stage(1, u, k)
    \/ Publish(1)
    \/ \E u \in Users : PlantSymlink(SiteDir(u), N_index, Append(OldDir(u), <<"b", ".", "t", "x", "t">>))
    \/ \E u \in ReqUsers, path \in BackupPaths : Serve(u, path)

SpecBackup == Init /\ [][NextBackup]_vars

\* The uploads of the concurrent serving specification.
RaceUploads == {1, 2, 9}

\* One upload_site call at a time on one device, every publish step a rename,
\* and one serve_file call whose steps interleave with them.  The upload's
\* response is delivered while no request is in flight, so that a request
\* overlaps one deployment at most.
NextRace ==
    \/ \E u \in Users, k \in RaceUploads : Stage(1, u, k)
    \/ RemoveLeftover(1)
    \/ CheckSite(1)
    \/ BackupOk(1)
    \/ PromoteRename(1)
    \/ Cleanup(1)
    \/ (req.pc \in {"idle", "done"} /\ Return(1))
    \/ \E u \in Users, path \in RacePaths : ServeFileBegin(u, path)
    \/ ServeFileCanonicalize
    \/ ServeFileIsDir
    \/ ServeFileIndex
    \/ ServeFileRead

SpecRace == InitConc /\ [][NextRace]_vars

\* Every staged tree of the flatten harness.
InitFlat ==
    /\ InitPipeline
    /\ crossDevice = FALSE
    /\ raw = <<>>
    /\ kindIn = [fmt |-> "zip", kind |-> "file"]
    /\ san = NoSan
    /\ xfs = StagingFs
    /\ ftree \in FlatTrees
    /\ fres = NoFlat
    /\ post = NoPost

NextFlat == FlattenStep

SpecFlat == InitFlat /\ [][NextFlat]_vars

-----------------------------------------------------------------------------
(* Properties *)

P_ab == <<"a", "/", "b", ".", "t", "x", "t">>
P_b == <<"b", ".", "t", "x", "t">>
Hi == <<"h", "i">>
TextPlain == "text/plain; charset=utf-8"

\* C1: for every well-formed user name, request path and filesystem state
\* (symbolic links inside the site and the index.html fallback included),
\* serve_file returns file bytes only when the file read has its canonical
\* location inside sites/U; a request that would read a file outside sites/U
\* never yields file content.
C1_ServedFromOwnSite ==
    (resp.r.status = "Ok" /\ ValidUsername(resp.user))
        => StartsWith(resp.r.source, SiteDir(resp.user))

\* C2: extracting an archive entry with an arbitrary raw path creates
\* directories and writes files only inside the staging directory: every path
\* the extraction adds lies below the staging root, everything outside it is as
\* it was, and a sanitized path joined to the root is the root or a descendant.
C2_ExtractionStaysInStaging ==
    san.err # "NotRun" =>
        /\ \A p \in DOMAIN xfs \ DOMAIN StagingFs : StartsWith(p, Dest)
        /\ \A p \in DOMAIN StagingFs :
              ~StartsWith(p, Dest) => p \in DOMAIN xfs /\ xfs[p] = StagingFs[p]
        /\ san.ok => StartsWith(Join(Dest, san.path), Dest)

\* An entry with a nested path was accepted and left something in the staging directory.
C2_Witness ==
    /\ san.ok
    /\ Len(san.path) = 2
    /\ \E p \in DOMAIN xfs \ DOMAIN StagingFs : StartsWith(p, Dest)

\* The failures upload_site reports before the publish steps.
EarlyFailure(r) == r.kind \in {"PayloadTooLarge", "BadRequest"}

\* C3: a call of upload_site that fails for an oversized upload, an unsupported
\* suffix, a corrupt archive, a sanitizer rejection or a quota violation leaves
\* everything below the sites directory (the live site and any backup directory)
\* exactly as it was before the call, and every request is answered as before.
C3_EarlyFailureLeavesSitesUntouched ==
    [][(pc[1] = "idle" /\ pc'[1] = "done" /\ EarlyFailure(call'[1].result))
          => /\ TreeAt(fs', SitesDir) = TreeAt(fs, SitesDir)
             /\ \A u \in Users, path \in SeqPaths :
                   serve_file(fs', u, path) = serve_file(fs, u, path)]_vars

\* A quota rejection while a published site is live and a backup directory exists.
C3_Witness ==
    /\ pc[1] = "done"
    /\ call[1].result = Failure("PayloadTooLarge", "quota")
    /\ call[1].prior.present /\ call[1].prior.tree # EmptyTree
    /\ TreeAt(fs, SiteDir(call[1].user)) = call[1].prior
    /\ Has(fs, OldDir(call[1].user))

\* C4: at every instant of a deployment the live site path holds exactly the
\* prior tree or exactly the staged tree (or nothing, between the two renames),
\* never a partial or mixed tree, except after a failed promote.
C4_LiveIsPriorOrStaged ==
    \A p \in Procs :
        (pc[p] # "idle" /\ ~(pc[p] = "done" /\ call[p].result.detail = "promote")) =>
            \/ ~Has(fs, SiteDir(call[p].user))
            \/ TreeAt(fs, SiteDir(call[p].user)) = call[p].prior
            \/ TreeAt(fs, SiteDir(call[p].user)) = call[p].staged

\* C5: when the move of the staged tree into the live location fails after the
\* live tree was renamed to the backup location, upload_site attempts to rename
\* the backup back to the live location before it returns the error.
C5_RestoreAttempted ==
    \A p \in Procs :
        (pc[p] = "done" /\ call[p].result = Failure("Internal", "promote") /\ call[p].moved) =>
            \E i \in 1..Len(trace[p]) :
                /\ trace[p][i].op = "rename"
                /\ trace[p][i].src = OldDir(call[p].user)
                /\ trace[p][i].dst = SiteDir(call[p].user)

\* C6: after a promote step failed, the content that was live before it stays
\* intact at the live or the backup location between deployment attempts, until
\* an attempt succeeds; a later attempt that fails does not destroy it.
C6_PriorRecoverable ==
    \A u \in Users :
        (saved[u].present /\ saved[u].tree # EmptyTree /\ \A p \in Procs : pc[p] \in {"idle", "done"}) =>
            \/ TreeAt(fs, SiteDir(u)) = saved[u]
            \/ TreeAt(fs, OldDir(u)) = saved[u]

\* The archive of upload k holds one entry only: the regular file a/b.txt with content "hi".
OnlyNestedFile(k) == k # 0 /\ Uploads[k].entries = <<Entry(P_ab, "file", Hi)>>

\* The last deployment published such an archive and the request for path was served after it.
ServedAfterNestedUpload(path) ==
    /\ pc[1] = "done"
    /\ call[1].result.kind = "Ok"
    /\ OnlyNestedFile(call[1].upl)
    /\ resp.user = call[1].user
    /\ resp.path = path

\* C7 as stated: after a successful upload of an archive whose only entry is the
\* regular file a/b.txt with content C, serving /U/a/b.txt returns C as text/plain.
C7_NestedPathServed ==
    ServedAfterNestedUpload(P_ab) =>
        resp.r.status = "Ok" /\ resp.r.body = Hi /\ resp.r.mime = TextPlain

\* C7: after a successful upload of an archive whose only entry is the regular
\* file a/b.txt with content C, the single top-level directory is flattened away:
\* serving /U/b.txt returns exactly C with content type text/plain;
\* charset=utf-8, and /U/a/b.txt is not found.
C7_FlattenedPathServed ==
    /\ ServedAfterNestedUpload(P_b) =>
          resp.r.status = "Ok" /\ resp.r.body = Hi /\ resp.r.mime = TextPlain
    /\ ServedAfterNestedUpload(P_ab) => resp.r.status = "NotFound"

C7_Witness ==
    ServedAfterNestedUpload(P_b) /\ resp.r.status = "Ok" /\ resp.r.body = Hi

\* C8: when upload_site returns success (no other deployment running), the live
\* tree is exactly the staged tree, so no file of the previous site that the
\* new archive lacks survives, the backup directory is gone, and the reported
\* disk_usage_bytes is the aggregate size of the live tree.
C8_LiveIsStaged ==
    (pc[1] = "done" /\ call[1].result.kind = "Ok") =>
        /\ call[1].staged.present
        /\ TreeAt(fs, SiteDir(call[1].user)) = call[1].staged
        /\ call[1].result.disk_usage_bytes = TotalSize(fs, SiteDir(call[1].user))

\* A success that replaced a site holding a file the new archive lacks.
C8_Witness ==
    /\ pc[1] = "done" /\ call[1].result.kind = "Ok"
    /\ call[1].prior.present
    /\ \E r \in DOMAIN call[1].prior.tree : r \notin DOMAIN call[1].staged.tree
    /\ TreeAt(fs, SiteDir(call[1].user)) = call[1].staged

\* The staged tree of an upload, extracted on its own.
StagedAlone(upl) == Extract(StagingFs, Dest, upl.entries, Decoder(upl.filename))

\* The upload gets as far as the quota check.
ReachesQuotaCheck(upl) ==
    /\ ~TooLarge(upl.len)
    /\ Decoder(upl.filename) # "unsupported"
    /\ ~upl.corrupt
    /\ StagedAlone(upl).ok

\* C9: a deployment is rejected by the quota check if and only if the aggregate
\* size of its staged tree (after extraction and flattening) is strictly greater
\* than the quota; a staged tree of exactly the quota's size is published.
C9_QuotaStrict ==
    pc[1] # "idle" =>
        /\ call[1].result = Failure("PayloadTooLarge", "quota")
              <=> /\ ReachesQuotaCheck(Uploads[call[1].upl])
                  /\ TotalSize(StagedAlone(Uploads[call[1].upl]).fs, Dest) > DiskQuotaBytes
        /\ ( /\ pc[1] = "done"
             /\ ReachesQuotaCheck(Uploads[call[1].upl])
             /\ TotalSize(StagedAlone(Uploads[call[1].upl]).fs, Dest) = DiskQuotaBytes
             /\ call[1].result.kind # "Internal" )
              => /\ call[1].result.kind = "Ok"
                 /\ TreeAt(fs, SiteDir(call[1].user)) = call[1].staged

\* A staged tree of exactly the quota's size was published.
C9_Witness ==
    /\ pc[1] = "done" /\ call[1].result.kind = "Ok"
    /\ TotalSize(StagedAlone(Uploads[call[1].upl]).fs, Dest) = DiskQuotaBytes
    /\ TotalSize(fs, SiteDir(call[1].user)) = DiskQuotaBytes

\* The segments of a raw path that are ".." and those that are hidden names.
IsParentSeg(c) == c = N_dotdot
IsHiddenSeg(c) == c[1] = "." /\ c # N_dot /\ c # N_dotdot
Offending(s) == {i \in 1..Len(Components(s)) : IsParentSeg(Components(s)[i]) \/ IsHiddenSeg(Components(s)[i])}
FirstOffending(s) == CHOOSE i \in Offending(s) : \A j \in Offending(s) : i <= j

\* C10 as stated: every raw path with a parent-directory segment fails with the
\* path-traversal error, every absolute path with the absolute-path error, and
\* every path with a hidden segment with the hidden-entry error, paths with more
\* than one kind of offending segment included.
C10_ErrorByAnySegment ==
    san.err # "NotRun" =>
        /\ (\E i \in 1..Len(Components(raw)) : IsParentSeg(Components(raw)[i])) => san.err = "PathTraversal"
        /\ HasRoot(raw) => san.err = "AbsolutePath"
        /\ (\E i \in 1..Len(Components(raw)) : IsHiddenSeg(Components(raw)[i])) => san.err = "HiddenEntry"

\* C10: every absolute path fails with the absolute-path error whatever its
\* segments; a relative path fails with the error of its first offending
\* segment, path traversal for ".." and hidden entry for another dot-prefixed
\* name; a relative path without offending segment is accepted.
C10_ErrorByFirstOffence ==
    san.err # "NotRun" =>
        /\ HasRoot(raw) => san.err = "AbsolutePath"
        /\ (~HasRoot(raw) /\ Offending(raw) # {}) =>
              san.err = IF IsParentSeg(Components(raw)[FirstOffending(raw)])
                        THEN "PathTraversal" ELSE "HiddenEntry"
        /\ (~HasRoot(raw) /\ Offending(raw) = {}) => san.ok

\* A relative path with a hidden segment before a parent-directory segment.
C10_Witness ==
    /\ ~HasRoot(raw)
    /\ \E i, j \in Offending(raw) :
          i < j /\ IsHiddenSeg(Components(raw)[i]) /\ IsParentSeg(Components(raw)[j])
    /\ san.err = "HiddenEntry"

\* The segments of a raw path: the non-empty pieces between separators.
IsSegment(c) == c # <<>>
RawSegments(s) == SelectSeq(Split(s, 1, <<>>), IsSegment)
NotCurDir(c) == c # N_dot

\* C11: sanitize_archive_path succeeds exactly when the raw path is not
\* absolute, has no ".." segment and no dot-prefixed segment other than ".";
\* on success the result is the remaining segments in their order with every
\* "." dropped, or the single segment "." when nothing remains.
C11_SanitizeExact ==
    san.err # "NotRun" =>
        /\ san.ok <=> /\ ~HasRoot(raw)
                      /\ \A i \in 1..Len(RawSegments(raw)) :
                            RawSegments(raw)[i][1] = "." => RawSegments(raw)[i] = N_dot
        /\ san.ok => san.path = IF SelectSeq(RawSegments(raw), NotCurDir) = <<>>
                                THEN <<N_dot>>
                                ELSE SelectSeq(RawSegments(raw), NotCurDir)

\* An accepted path from which a "." segment was dropped and a name kept.
C11_Witness ==
    /\ san.ok
    /\ san.path # <<N_dot>>
    /\ Len(san.path) < Len(RawSegments(raw))

\* The top level of the staged tree holds exactly one entry, a directory.
SingleWrapper(f) ==
    Cardinality(Children(f, Dest)) = 1 /\ \A c \in Children(f, Dest) : f[c].kind = "dir"

\* C12: flatten_single_root changes the staged tree if and only if its top
\* level holds exactly one entry and that entry is a directory; then the tree
\* at the root afterwards is exactly the tree that was below the wrapper
\* (every child moved up with its subtree, the wrapper gone, one level only);
\* otherwise the tree is unchanged.
C12_FlattenExact ==
    fres.run =>
        IF SingleWrapper(ftree)
        THEN /\ fres.ok
             /\ \A c \in Children(ftree, Dest) : TreeAt(fres.fs, Dest) = TreeAt(ftree, c)
             /\ fres.fs # ftree
        ELSE fres.ok /\ fres.fs = ftree

\* C13: for both archive formats an entry that is neither a regular file nor a
\* directory (here a symbolic link, under a path the sanitizer accepts) creates
\* nothing in the staging tree.
C13_SpecialEntrySkipped ==
    (kindIn.kind = "symlink" /\ san.ok) => xfs = StagingFs

\* C14: after delete_site returns success, from any prior state of the user's
\* site (populated, empty, or absent after a failed deployment), the user's
\* live site directory exists and is empty.
C14_DeletedSiteIsEmpty ==
    (api.op = "delete_site" /\ api.status = "Ok") =>
        TreeAt(fs, SiteDir(api.user)) = Present(EmptyTree)

\* C15: for a well-formed user name, every request whose joined path resolves
\* (by its "." and ".." segments or as an absolute path) outside the user's
\* site directory is answered Forbidden, never NotFound, whatever exists at the
\* escaped location.
C15_EscapeIsForbidden ==
    ( /\ resp.r.status # "None"
      /\ ValidUsername(resp.user)
      /\ ~StartsWith(Normalize(FilePath(resp.user, resp.path), <<>>), SiteDir(resp.user)) )
        => resp.r.status = "Forbidden"

\* The directory a served request resolved to: the site directory for
\* /{user}/, the canonical form of the joined path otherwise.
ServedDir ==
    IF resp.route = "index" THEN CanonOk(SiteDir(resp.user))
    ELSE Canonicalize(fs, FilePath(resp.user, resp.path))

\* C16: a request that resolves to a directory inside the user's site directory
\* (/{user}/ itself included) returns the content of the regular file
\* index.html of that directory as text/html when it is there and NotFound when
\* no index.html is there; whatever is served is a file, never a directory.
C16_IndexFallback ==
    ( /\ resp.route # "none"
      /\ ValidUsername(resp.user)
      /\ ServedDir.ok
      /\ Has(fs, ServedDir.path)
      /\ KindOf(fs, ServedDir.path) = "dir"
      /\ StartsWith(ServedDir.path, SiteDir(resp.user)) ) =>
        /\ Append(ServedDir.path, N_index) \notin DOMAIN fs => resp.r = NotFound
        /\ ( /\ Append(ServedDir.path, N_index) \in DOMAIN fs
             /\ fs[Append(ServedDir.path, N_index)].kind = "file" ) =>
               /\ resp.r.status = "Ok"
               /\ resp.r.body = fs[Append(ServedDir.path, N_index)].data
               /\ resp.r.source = Append(ServedDir.path, N_index)
               /\ resp.r.mime = "text/html; charset=utf-8"
        /\ resp.r.status = "Ok" => KindOf(fs, resp.r.source) = "file"

\* The request named a directory of the site and its index.html was served.
C16_Witness ==
    /\ resp.route = "site"
    /\ resp.path = <<".">>
    /\ resp.r.status = "Ok"
    /\ resp.r.source = Append(SiteDir(resp.user), N_index)
    /\ fs[resp.r.source].kind = "file"

\* The characters of a well-formed user name: ASCII letters, digits, "-" and "_".
NameChars ==
    {Upper[i] : i \in 1..26} \cup {Lower[i] : i \in 1..26} \cup Digits \cup {"-", "_"}

\* C17: for every user name holding a character outside ASCII letters, digits,
\* "-" and "_", serve_file returns NotFound for every request path: one and the
\* same response in every filesystem state, whatever users or files exist.
C17_MalformedUserNotFound ==
    (resp.route # "none" /\ \E i \in 1..Len(resp.user) : resp.user[i] \notin NameChars)
        => resp.r = NotFound

\* A malformed user name asked for a path at which a file exists.
C17_Witness ==
    /\ resp.route = "site"
    /\ \E i \in 1..Len(resp.user) : resp.user[i] \notin NameChars
    /\ HasRoot(resp.path)
    /\ Components(resp.path) \in DOMAIN fs
    /\ resp.r = NotFound

\* The regular files below dir, each with its path relative to dir and its size.
RegularFiles(f, dir) ==
    {FileEntry(PathString(SubSeq(p, Len(dir) + 1, Len(p))), Len(f[p].data)) :
        p \in {q \in Under(f, dir) : f[q].kind = "file"}}

\* C18: list_files_recursive returns one entry per regular file of the tree at
\* every depth and no other entry, with paths relative to the root in
\* lexicographic order, and a total equal to the sum of the listed sizes (the
\* empty list and 0 for a missing root).
C18_ListIsRegularFiles ==
    api.op = "get_site_info" =>
        /\ {api.files[i] : i \in 1..Len(api.files)} = RegularFiles(fs, SiteDir(api.user))
        /\ Len(api.files) = Cardinality(RegularFiles(fs, SiteDir(api.user)))
        /\ \A i \in 1..Len(api.files) - 1 : StrLess(api.files[i].path, api.files[i + 1].path)
        /\ api.total = SumEntries({api.files[i] : i \in 1..Len(api.files)})

\* The call fell back from the rename of the staging directory to the copy.
FellBack(p) ==
    \E i \in 1..Len(trace[p]) :
        trace[p][i] = Op("rename", TempDir(p), SiteDir(call[p].user), FALSE)

\* C19: once the promote step has fallen back from rename to the recursive
\* copy, the live site path never holds only part of the staged tree: at every
\* step of the copy, and after a copy that failed partway, it is absent or holds
\* the complete staged tree.
C19_CopyNeverPartial ==
    \A p \in Procs :
        (pc[p] # "idle" /\ FellBack(p)) =>
            \/ ~Has(fs, SiteDir(call[p].user))
            \/ TreeAt(fs, SiteDir(call[p].user)) = call[p].staged

\* C20: when two concurrent upload_site calls for the same user both report
\* success, the user's live site tree is exactly the staged tree of one of the
\* two uploads, under every interleaving of their publish steps.
C20_FinalIsOneUpload ==
    ( /\ \A p \in Procs : pc[p] = "done" /\ call[p].result.kind = "Ok"
      /\ call[1].user = call[2].user ) =>
        \/ TreeAt(fs, SiteDir(call[1].user)) = call[1].staged
        \/ TreeAt(fs, SiteDir(call[1].user)) = call[2].staged

\* C21: in every reachable state, under any interleaving of uploads, the
\* aggregate byte size of every user's live site tree is at most the quota.
C21_LiveWithinQuota ==
    \A u \in Users : TotalSize(fs, SiteDir(u)) <= DiskQuotaBytes

\* The response r carries the complete bytes of the file the request path names
\* in the site tree t: the file itself, or index.html of the directory.
ServedFrom(t, u, rel, r) ==
    /\ t.present
    /\ \E q \in {rel, Append(rel, N_index)} :
          /\ q \in DOMAIN t.tree
          /\ t.tree[q].kind = "file"
          /\ r = Response("Ok", t.tree[q].data, mime_from_extension(Extension(FileName(q))),
                          SiteDir(u) \o q)

\* C22: a serve request for a path of user U that runs concurrently with a
\* rename-based publish for U returns, under every interleaving, the complete
\* bytes of the old version of the file, the complete bytes of the new version,
\* or NotFound; never Forbidden, truncated content, or content from elsewhere.
C22_OldNewOrNotFound ==
    (req.pc = "done" /\ req.user \in Users) =>
        \/ req.r = NotFound
        \/ \E t \in {req.versions[1], req.versions[2], req.live} :
              ServedFrom(t, req.user, Components(req.path), req.r)

\* A request that began on the old version of index.html was answered with the
\* new version's bytes.
C22_Witness ==
    /\ req.pc = "done" /\ req.path = N_index
    /\ req.r.status = "Ok"
    /\ req.live.present
    /\ <<N_index>> \in DOMAIN req.live.tree
    /\ req.live.tree[<<N_index>>].kind = "file"
    /\ req.live.tree[<<N_index>>].data # req.r.body
    /\ ServedFrom(req.versions[2], req.user, Components(req.path), req.r)

\* No step of the call has failed so far.
NoFailure(p) == pc[p] # "idle" /\ call[p].result.kind \in {"None", "Ok"}

\* C23: in a deployment with no I/O failure and no concurrent deployment, the
\* backup directory exists only between the rename of the live tree to backup
\* and the final cleanup: once the leftover has been removed and until the live
\* tree is moved there is no backup; from the move until the cleanup the backup
\* holds the tree that was live, and there is a backup only if a live tree was
\* moved; when upload_site returns success no backup remains.
C23_BackupWindow ==
    \A p \in Procs : NoFailure(p) =>
        LET old_dir == OldDir(call[p].user)
        IN  /\ pc[p] \in {"check", "backup"} => ~Has(fs, old_dir)
            /\ pc[p] \in {"promote", "copy", "cleanup"} =>
                  /\ Has(fs, old_dir) <=> call[p].moved
                  /\ call[p].moved => TreeAt(fs, old_dir) = call[p].prior
            /\ pc[p] = "done" => ~Has(fs, old_dir)

\* A deployment that found a leftover backup of a failed one has removed it and
\* moved the live tree to the backup location.
C23_Witness ==
    \E p \in Procs :
        /\ pc[p] = "promote" /\ call[p].moved
        /\ saved[call[p].user].present
        /\ TreeAt(fs, OldDir(call[p].user)) = call[p].prior

\* C24: flatten_single_root never fails and never loses or overwrites an entry
\* because of a name collision: whatever the children of the single wrapper
\* directory are named (like the wrapper, like the temporary directory), it
\* succeeds and every entry below the wrapper is found one level up, unchanged.
C24_NoCollision ==
    (fres.run /\ SingleWrapper(ftree)) =>
        /\ fres.ok
        /\ \A c \in Children(ftree, Dest) :
              \A p \in Under(ftree, c) \ {c} :
                  LET q == Dest \o SubSeq(p, Len(c) + 1, Len(p))
                  IN  q \in DOMAIN fres.fs /\ fres.fs[q] = ftree[p]

\* C25: the backup directory of a user is never served: for every user name
\* and request path, no response carries bytes of a file located under a
\* backup directory sites/<username>.old.
C25_BackupNeverServed ==
    resp.r.status = "Ok" => \A u \in Users : ~StartsWith(resp.r.source, OldDir(u))

\* The call created its staging directory.
CreatedTempDir(p) ==
    \E i \in 1..Len(trace[p]) : trace[p][i] = Op("tempdir", <<>>, TempDir(p), TRUE)

\* C26: every upload_site call that created a staging directory leaves no
\* staging directory behind when it returns, whatever stage it succeeded or
\* failed at (extraction, flattening, quota, backup, promote).
C26_NoStagingLeftBehind ==
    \A p \in Procs :
        (pc[p] = "done" /\ CreatedTempDir(p)) => Under(fs, TempDir(p)) = {}

\* A call that failed in the fallback copy, its staging directory still holding
\* the staged tree when the error was returned, has returned.
C26_Witness ==
    \E p \in Procs :
        /\ pc[p] = "done" /\ CreatedTempDir(p)
        /\ call[p].result = Failure("Internal", "promote")

\* C27: an upload whose byte length is strictly greater than max_upload_bytes
\* is rejected with PayloadTooLarge before any staging directory is created or
\* any decoding is attempted; an upload whose length equals max_upload_bytes
\* exactly is accepted for decoding.
C27_UploadLimit ==
    post.done =>
        /\ post.len > MaxUploadBytes =>
              post.result.kind = "PayloadTooLarge" /\ ~post.tempdir
        /\ post.len = MaxUploadBytes =>
              post.tempdir /\ post.result.kind # "PayloadTooLarge"

\* C28: under any interleaving of concurrent register_user, create_invite_code
\* and delete_invite_code calls, each invite code is consumed by at most one
\* successful registration; a used code is never deleted; every successful
\* registration marks exactly one previously unused code as used by its user
\* name; and a registration that fails leaves every code's status unchanged.
C28_InviteCodes ==
    /\ \A c \in Codes : Cardinality(db.consumed[c]) <= 1
    /\ \A c \in Codes : \A u \in db.consumed[c] : db.codes[c] = u
    /\ \A p \in DbProcs :
          LET o == db.op[p]
          IN  (o.pc = "done" /\ o.kind = "register_user") =>
                  IF o.result = "Ok"
                  THEN /\ o.before[o.code] = Unused
                       /\ o.after[o.code] = o.username
                       /\ \A c \in Codes \ {o.code} : o.after[c] = o.before[c]
                  ELSE o.after = o.before

\* Two registrations named the same code: one succeeded, the other was refused.
C28_Witness ==
    \E p, q \in DbProcs :
        /\ db.op[p].pc = "done" /\ db.op[p].kind = "register_user" /\ db.op[p].result = "Ok"
        /\ db.op[q].pc = "done" /\ db.op[q].kind = "register_user" /\ db.op[q].result = "BadRequest"
        /\ db.op[p].code = db.op[q].code
        /\ db.op[p].username # db.op[q].username

====
